---- MODULE Spec2Model ----
(***************************************************************************)
(* Review Document Parsing & Convergence Engine.                           *)
(*                                                                         *)
(*   convergence_analyzer.py   ConvergenceAnalyzer (directory analysis)    *)
(*   review_quality_check.py   ReviewQualityChecker (single document audit)*)
(*                                                                         *)
(* Text is modelled as sequences of one-character strings wherever the     *)
(* code compares, sorts or pattern-matches it (file names, round numbers). *)
(* A document's status table is a sequence of rows; a status cell is the   *)
(* sequence of its space-separated words.  User-facing messages are        *)
(* rendered in ASCII.                                                      *)
(***************************************************************************)
EXTENDS Integers, Sequences, FiniteSets, TLC

(* ------------------------------ bounds --------------------------------- *)

\* Largest number of Review-v<N>.md files in the analysed directory.
MaxFiles == 10
\* Rounds whose document is drawn freely; a later round repeats the table
\* of the round before it.
MaxVaried == 2
\* analyze() calls made on one analyzer object.
MaxRuns == 2

(* ------------------------------- text ---------------------------------- *)

DigitChars == <<"0", "1", "2", "3", "4", "5", "6", "7", "8", "9">>

IsDigit(c) == \E i \in 1..10 : DigitChars[i] = c

\* Code point of a character (the order str comparison uses).
Code(c) ==
    CASE c = "-" -> 45
      [] c = "." -> 46
      [] IsDigit(c) -> 47 + (CHOOSE i \in 1..10 : DigitChars[i] = c)
      [] c = "R" -> 82
      [] c = "b" -> 98
      [] c = "d" -> 100
      [] c = "e" -> 101
      [] c = "i" -> 105
      [] c = "k" -> 107
      [] c = "m" -> 109
      [] c = "r" -> 114
      [] c = "v" -> 118
      [] c = "w" -> 119
      [] OTHER -> 120

\* str(n) for a natural number: its decimal digits.
RECURSIVE DecStr(_)
DecStr(n) ==
    IF n < 10 THEN <<DigitChars[n + 1]>>
    ELSE DecStr(n \div 10) \o <<DigitChars[(n % 10) + 1]>>

\* int(s) for a string of decimal digits.
RECURSIVE DecVal(_)
DecVal(s) ==
    IF s = <<>> THEN 0
    ELSE 10 * DecVal(SubSeq(s, 1, Len(s) - 1)) + (Code(s[Len(s)]) - 48)

ReviewPrefix == <<"R", "e", "v", "i", "e", "w", "-", "v">>
MdSuffix == <<".", "m", "d">>

StartsWith(s, p) == Len(s) >= Len(p) /\ SubSeq(s, 1, Len(p)) = p
EndsWith(s, p) == Len(s) >= Len(p) /\ SubSeq(s, Len(s) - Len(p) + 1, Len(s)) = p

\* The name of the document of round n.
FileName(n) == ReviewPrefix \o DecStr(n) \o MdSuffix

\* Path("...").glob("Review-v*.md") over the names of a directory.
GlobReview(names) ==
    {f \in names : /\ Len(f) >= Len(ReviewPrefix) + Len(MdSuffix)
                   /\ StartsWith(f, ReviewPrefix)
                   /\ EndsWith(f, MdSuffix)}

\* a < b for two paths of one directory: code point order of the names.
RECURSIVE PathLess(_, _)
PathLess(a, b) ==
    IF a = <<>> THEN b # <<>>
    ELSE IF b = <<>> THEN FALSE
    ELSE IF Code(a[1]) # Code(b[1]) THEN Code(a[1]) < Code(b[1])
    ELSE PathLess(Tail(a), Tail(b))

RECURSIVE SetToSeq(_)
SetToSeq(S) ==
    IF S = {} THEN <<>>
    ELSE LET x == CHOOSE y \in S : TRUE IN <<x>> \o SetToSeq(S \ {x})

\* sorted(review_dir.glob("Review-v*.md"))
SortedReports(names) == SortSeq(SetToSeq(GlobReview(names)), PathLess)

\* md_file.stem.replace("Review-v", "") for a globbed name.
RoundNum(f) == SubSeq(f, Len(ReviewPrefix) + 1, Len(f) - Len(MdSuffix))

(* ----------------------------- documents ------------------------------- *)

Levels == {"B", "M", "C", "R", "Q"}

\* A status table row  | <id> | <title> | v<since> | <status> |
Row(p, n, st) ==
    [id |-> <<p, n>>, title |-> "t", since |-> <<"1">>, status |-> st]

Open == <<"Open">>
Resolved == <<"Resolved">>
AcceptedRisk == <<"Accepted", "Risk">>
Pending == <<"Pending">>

\* The status tables a freely drawn round may carry.
DocChoices ==
    { <<>>,
      << Row("B", 1, Open), Row("M", 1, Open) >>,
      << Row("B", 1, Resolved), Row("M", 1, Resolved) >>,
      << Row("B", 1, AcceptedRisk), Row("B", 2, Open), Row("Q", 1, Pending),
         Row("B", 3, Pending), Row("Q", 1, Resolved) >> }

(* ------------------------------- state --------------------------------- *)

VARIABLES
    dir_exists,  \* whether the review directory is there
    dir,         \* review_dir: file name -> status table of the document
    rounds,      \* ConvergenceAnalyzer.rounds
    all_issues,  \* ConvergenceAnalyzer.all_issues
    runs,        \* analyze() calls made on the analyzer
    result       \* what the last analyze() returned

avars == <<dir_exists, dir, rounds, all_issues, runs, result>>

VARIABLES
    file_name,     \* name of the audited path
    file_exists,   \* whether a file is there
    file_content,  \* its lines
    self_content,  \* ReviewQualityChecker.content
    report,        \* ReviewQualityChecker.report
    errors,        \* ReviewQualityChecker.errors
    warnings,      \* ReviewQualityChecker.warnings
    checks,        \* check() calls made on the checker
    ret,           \* what the last check() returned
    exit_code,     \* exit status of the tool, NotRun before it ran
    out            \* what the tool has printed, line by line

cvars == <<file_name, file_exists, file_content, self_content, report, errors,
           warnings, checks, ret, exit_code, out>>

vars == <<avars, cvars>>

NotRun == -1
NoRet == [pending |-> TRUE]

\* ReviewReport(version="", depth="", round="")
ReviewReport ==
    [version |-> <<>>, depth |-> "", round |-> <<>>, issues |-> <<>>,
     has_checkpoint |-> FALSE]

\* ReviewQualityChecker.__init__
NewCheckerState ==
    /\ self_content = <<>>
    /\ report = ReviewReport
    /\ errors = <<>>
    /\ warnings = <<>>
    /\ checks = 0
    /\ ret = NoRet

\* The audit tool at rest while the convergence analyzer is exercised.
CheckerIdle ==
    /\ file_name = <<>>
    /\ file_exists = FALSE
    /\ file_content = <<>>
    /\ NewCheckerState
    /\ exit_code = NotRun
    /\ out = <<>>

(* ------------------------- ConvergenceAnalyzer ------------------------- *)

EmptyMap == [x \in {} |-> 0]

RoundStats(round_num) ==
    [round |-> round_num, blocker |-> 0, major |-> 0, completeness |-> 0,
     risk |-> 0, question |-> 0, total |-> 0]

StatsRowMatches_AnyLevel(row) ==
    /\ row.id[1] \in Levels
    /\ row.status \in {Open, Resolved, AcceptedRisk}

\* r"\| (B-\d+) \|.*?\| (Open|Resolved|Accepted Risk) \|" on one row.
StatsRowMatches(row) ==
    /\ row.id[1] = "B"
    /\ row.status \in {Open, Resolved, AcceptedRisk}

\* One iteration of the counting loop.
CountRow(stats, row) ==
    LET level == row.id[1] IN
    IF level = "B" THEN [stats EXCEPT !.blocker = @ + 1]
    ELSE IF level = "M" THEN [stats EXCEPT !.major = @ + 1]
    ELSE IF level = "C" THEN [stats EXCEPT !.completeness = @ + 1]
    ELSE IF level = "R" THEN [stats EXCEPT !.risk = @ + 1]
    ELSE IF level = "Q" THEN [stats EXCEPT !.question = @ + 1]
    ELSE stats

RECURSIVE CountRows(_, _)
CountRows(stats, content) ==
    IF content = <<>> THEN stats
    ELSE IF StatsRowMatches(content[Len(content)])
         THEN CountRow(CountRows(stats, SubSeq(content, 1, Len(content) - 1)),
                       content[Len(content)])
         ELSE CountRows(stats, SubSeq(content, 1, Len(content) - 1))

_extract_round_stats(content, round_num) ==
    LET stats == CountRows(RoundStats(round_num), content) IN
    [stats EXCEPT !.total = stats.blocker + stats.major + stats.completeness
                            + stats.risk + stats.question]

\* r"\| (B-\d+|M-\d+|C-\d+|R-\d+|Q-\d+) \| ([^|]+) \| v\d+ \| (\w+) \|"
TrackRowMatches(row) ==
    /\ row.id[1] \in Levels
    /\ Len(row.since) >= 1
    /\ \A i \in 1..Len(row.since) : IsDigit(row.since[i])
    /\ Len(row.status) = 1

\* TrackRow that rewrites the timeline instead of appending to it.
TrackRow_Rewrite(issues, row, round_num) ==
    LET issue_id == row.id
        status == row.status[1]
        known == IF issue_id \in DOMAIN issues THEN issues
                 ELSE issues @@ (issue_id :>
                        [id |-> issue_id, level |-> issue_id[1],
                         title |-> row.title, first_round |-> round_num,
                         status |-> status, changes |-> <<>>])
    IN [known EXCEPT
          ![issue_id].changes = <<[round |-> round_num, status |-> status]>>,
          ![issue_id].status = status]

\* One iteration of the tracking loop.
TrackRow(issues, row, round_num) ==
    LET issue_id == row.id
        status == row.status[1]
        known == IF issue_id \in DOMAIN issues THEN issues
                 ELSE issues @@ (issue_id :>
                        [id |-> issue_id, level |-> issue_id[1],
                         title |-> row.title, first_round |-> round_num,
                         status |-> status, changes |-> <<>>])
    IN [known EXCEPT
          ![issue_id].changes = Append(@, [round |-> round_num, status |-> status]),
          ![issue_id].status = status]

RECURSIVE _track_issues(_, _, _)
_track_issues(issues, content, round_num) ==
    IF content = <<>> THEN issues
    ELSE IF TrackRowMatches(content[Len(content)])
         THEN TrackRow(_track_issues(issues,
                                     SubSeq(content, 1, Len(content) - 1),
                                     round_num),
                       content[Len(content)], round_num)
         ELSE _track_issues(issues, SubSeq(content, 1, Len(content) - 1),
                            round_num)

\* The loop of _load_all_reports over the sorted files: the analyzer's
\* rounds and all_issues after it.
\* One iteration of the loop: the snapshot of the file is appended and its
\* rows are tracked.
LoadFile(loaded, content, round_num) ==
    [rounds |-> Append(loaded.rounds, _extract_round_stats(content, round_num)),
     all_issues |-> _track_issues(loaded.all_issues, content, round_num)]

RECURSIVE LoadFiles(_, _, _, _)
LoadFiles(md_files, d, rs, issues) ==
    IF md_files = <<>> THEN [rounds |-> rs, all_issues |-> issues]
    ELSE LoadFile(LoadFiles(SubSeq(md_files, 1, Len(md_files) - 1), d, rs, issues),
                  d[md_files[Len(md_files)]],
                  RoundNum(md_files[Len(md_files)]))

_load_all_reports(d, rs, issues) ==
    LoadFiles(SortedReports(DOMAIN d), d, rs, issues)

\* self.rounds[i] with Python's indexing (negative i counts from the end).
PyIndex(rs, i) == IF i < 0 THEN rs[Len(rs) + i + 1] ELSE rs[i + 1]

None == <<>>

MaxRounds == 16

_calculate_stats(rs) == rs

\* Direction with "or" in place of "and" in its first test.
Direction_EitherImproves(blocker_change, major_change) ==
    IF blocker_change < 0 \/ major_change < 0 THEN "converging"
    ELSE IF blocker_change > 0 \/ major_change > 0 THEN "diverging"
    ELSE "stable"

\* The classification of the change between the two latest rounds.
Direction(blocker_change, major_change) ==
    IF blocker_change < 0 /\ major_change < 0 THEN "converging"
    ELSE IF blocker_change > 0 \/ major_change > 0 THEN "diverging"
    ELSE "stable"

\* PredictedRounds as a true ceiling of remaining / |total_change|.
PredictedRounds_Ceiling(remaining, total_change) ==
    LET neg_change == 0 - total_change
        step == IF 1 > neg_change THEN 1 ELSE neg_change
    IN (remaining + step - 1) \div step

\* remaining // max(1, -total_change) + 1
PredictedRounds(remaining, total_change) ==
    LET neg_change == 0 - total_change IN
    (remaining \div (IF 1 > neg_change THEN 1 ELSE neg_change)) + 1

PredictionText(n) == <<"expected to converge after">> \o DecStr(n) \o <<"rounds">>
PredictionSoon == <<"about to converge">>

_analyze_trend(rs) ==
    IF Len(rs) < 2
    THEN [direction |-> "unknown", description |-> "insufficient data",
          prediction |-> None]
    ELSE
      LET latest == PyIndex(rs, -1)
          previous == PyIndex(rs, -2)
          blocker_change == latest.blocker - previous.blocker
          major_change == latest.major - previous.major
          total_change == latest.total - previous.total
          direction == Direction(blocker_change, major_change)
          description ==
              IF direction = "converging" THEN "converging"
              ELSE IF direction = "diverging" THEN "diverging"
              ELSE "stabilising"
          remaining == latest.total - latest.blocker - latest.major
          predicted_rounds == PredictedRounds(remaining, total_change)
          prediction ==
              IF direction = "converging"
              THEN IF remaining > 0 /\ total_change < 0
                   THEN PredictionText(predicted_rounds)
                   ELSE PredictionSoon
              ELSE None
      IN [direction |-> direction, description |-> description,
          prediction |-> prediction,
          changes |-> [blocker |-> blocker_change, major |-> major_change,
                       total |-> total_change]]

_get_change(rs, index) ==
    IF index = -1
    THEN [blocker |-> PyIndex(rs, index).blocker,
          major |-> PyIndex(rs, index).major,
          total |-> PyIndex(rs, index).total]
    ELSE LET current == PyIndex(rs, index)
             previous == IF index > 0 THEN PyIndex(rs, index - 1) ELSE current
         IN [blocker |-> current.blocker - previous.blocker,
             major |-> current.major - previous.major,
             total |-> current.total - previous.total]

\* The condition texts of _check_termination.
CondNoIncrease == <<"2 consecutive rounds without new Blocker/Major">>
CondAllResolved == <<"all Blocker/Major resolved">>
CondUnresolved(n) == <<"still">> \o DecStr(n) \o <<"Blocker/Major unresolved">>
CondMaxRounds == <<"maximum rounds reached (16)">>
\* The literal the final any() compares condition texts with.
CondExcluded == <<"still", "N", "Blocker/Major unresolved">>

\* AnyMet as a conjunction over all the conditions.
AnyMet_AllMet(conditions) ==
    \A i \in 1..Len(conditions) : conditions[i].met

\* any(c["met"] for c in conditions if c["condition"] != <excluded literal>)
AnyMet(conditions) ==
    \E i \in 1..Len(conditions) :
        conditions[i].condition # CondExcluded /\ conditions[i].met

\* Unresolved counting the blockers only.
Unresolved_BlockerOnly(latest) == latest.blocker

\* unresolved = latest.blocker + latest.major
Unresolved(latest) == latest.blocker + latest.major

\* ReachedMax with a strict comparison.
ReachedMax_Strict(rs) == Len(rs) > MaxRounds

\* len(self.rounds) >= 16
ReachedMax(rs) == Len(rs) >= MaxRounds

_check_termination(rs) ==
    IF rs = <<>>
    THEN [can_terminate |-> FALSE, reason |-> "no review data"]
    ELSE
      LET latest == PyIndex(rs, -1)
          cond1 ==
              IF Len(rs) >= 2
              THEN LET latest_change == _get_change(rs, -1)
                       prev_change == _get_change(rs, -2)
                   IN IF /\ latest_change.blocker <= 0 /\ latest_change.major <= 0
                         /\ prev_change.blocker <= 0 /\ prev_change.major <= 0
                      THEN <<[condition |-> CondNoIncrease, met |-> TRUE]>>
                      ELSE <<>>
              ELSE <<>>
          unresolved == Unresolved(latest)
          cond2 ==
              IF unresolved = 0
              THEN <<[condition |-> CondAllResolved, met |-> TRUE]>>
              ELSE <<[condition |-> CondUnresolved(unresolved), met |-> FALSE]>>
          cond3 ==
              IF ReachedMax(rs)
              THEN <<[condition |-> CondMaxRounds, met |-> TRUE]>>
              ELSE <<>>
          conditions == cond1 \o cond2 \o cond3
      IN [can_terminate |-> AnyMet(conditions),
          conditions |-> conditions,
          remaining_blocker |-> latest.blocker,
          remaining_major |-> latest.major]

_generate_recommendations(rs) ==
    IF rs = <<>> THEN << <<"waiting for review data">> >>
    ELSE
      LET latest == PyIndex(rs, -1)
          trend == _analyze_trend(rs)
          on_blocker ==
              IF latest.blocker > 0
              THEN << <<"still">> \o DecStr(latest.blocker) \o <<"Blocker">> >>
              ELSE << <<"all Blocker resolved">> >>
          on_trend ==
              IF trend.direction = "converging"
              THEN << <<"good trend", trend.description>> >>
                   \o (IF trend.prediction # None
                       THEN <<trend.prediction>> ELSE <<>>)
              ELSE IF trend.direction = "diverging"
              THEN << <<"warning: issue count is growing">> >>
              ELSE << <<"issue count is stabilising">> >>
      IN on_blocker \o on_trend

\* What analyze() returns once the reports are loaded.
AnalysisOf(rs) ==
    [rounds |-> _calculate_stats(rs),
     trend |-> _analyze_trend(rs),
     recommendations |-> _generate_recommendations(rs),
     termination_check |-> _check_termination(rs)]

(* what the convergence tool prints *)

\* A printed line of the report: its section and its text.
ReportLine(section, text) == [section |-> section, text |-> text]

\* f"{n:+d}"
SignedStr(n) == IF n < 0 THEN <<"-">> \o DecStr(-n) ELSE <<"+">> \o DecStr(n)

HistoryRow(stats) ==
    ReportLine("history",
               <<"v">> \o stats.round \o <<" ">> \o DecStr(stats.blocker)
               \o <<" ">> \o DecStr(stats.major)
               \o <<" ">> \o DecStr(stats.completeness)
               \o <<" ">> \o DecStr(stats.risk)
               \o <<" ">> \o DecStr(stats.question)
               \o <<" ">> \o DecStr(stats.total))

TrendLines(trend) ==
    <<ReportLine("trend", <<trend.description>>)>>
    \o (IF "changes" \in DOMAIN trend
        THEN <<ReportLine("trend",
                          <<"B">> \o SignedStr(trend.changes.blocker)
                          \o <<"M">> \o SignedStr(trend.changes.major)
                          \o <<"total">> \o SignedStr(trend.changes.total))>>
        ELSE <<>>)
    \o (IF trend.prediction # None
        THEN <<ReportLine("trend", trend.prediction)>> ELSE <<>>)

ConditionLine(c) ==
    ReportLine("termination",
               <<IF c.met THEN "met" ELSE "not met">> \o c.condition)

\* print_report: the lines printed for the result of analyze(), and
\* whether the report was completed.  term["conditions"] raises KeyError
\* when the termination result has no condition list; the traceback ends
\* the output.
print_report(res) ==
    LET term == res.termination_check
        upto == <<ReportLine("title", <<>>), ReportLine("history", <<>>)>>
                \o [i \in 1..Len(res.rounds) |-> HistoryRow(res.rounds[i])]
                \o <<ReportLine("trend", <<>>)>> \o TrendLines(res.trend)
                \o <<ReportLine("termination", <<>>)>>
    IN IF "conditions" \notin DOMAIN term
       THEN [out |-> Append(upto, ReportLine("traceback",
                                             <<"KeyError", "conditions">>)),
             completed |-> FALSE]
       ELSE [out |-> upto
                     \o [i \in 1..Len(term.conditions) |->
                            ConditionLine(term.conditions[i])]
                     \o <<ReportLine("recommendations", <<>>)>>
                     \o [i \in 1..Len(res.recommendations) |->
                            ReportLine("recommendations", res.recommendations[i])]
                     \o <<ReportLine("verdict",
                                     <<IF term.can_terminate THEN "can terminate"
                                       ELSE "continue">>)>>,
             completed |-> TRUE]

(* ------------------------------ actions -------------------------------- *)

NoResult == [pending |-> TRUE]

\* ConvergenceAnalyzer(review_dir) on a directory that is still empty.
AnalyzerInit ==
    /\ dir = EmptyMap
    /\ rounds = <<>>
    /\ all_issues = EmptyMap
    /\ runs = 0
    /\ result = NoResult

Init == dir_exists \in BOOLEAN /\ AnalyzerInit /\ CheckerIdle

NumFiles == Cardinality(DOMAIN dir)

\* The review process writes the document of the next round.
WriteReview(doc) ==
    /\ dir_exists /\ exit_code = NotRun
    /\ NumFiles < MaxFiles
    /\ IF NumFiles < MaxVaried THEN TRUE ELSE doc = dir[FileName(NumFiles)]
    /\ dir' = dir @@ (FileName(NumFiles + 1) :> doc)
    /\ UNCHANGED <<dir_exists, rounds, all_issues, runs, result, cvars>>

\* ConvergenceAnalyzer.__init__: a new analyzer replaces the current one.
NewAnalyzer ==
    /\ runs > 0 /\ exit_code = NotRun
    /\ rounds' = <<>>
    /\ all_issues' = EmptyMap
    /\ runs' = 0
    /\ result' = NoResult
    /\ UNCHANGED <<dir_exists, dir, cvars>>

\* ConvergenceAnalyzer.analyze on the current analyzer.
Analyze ==
    /\ runs < MaxRuns /\ exit_code = NotRun
    /\ LET loaded == _load_all_reports(dir, rounds, all_issues)
       IN /\ rounds' = loaded.rounds
          /\ all_issues' = loaded.all_issues
          /\ result' = AnalysisOf(loaded.rounds)
    /\ runs' = runs + 1
    /\ UNCHANGED <<dir_exists, dir, cvars>>

\* main() of the convergence tool: a new analyzer on the directory, one
\* analyze() inside print_report, the report; an uncaught exception ends
\* the process with status 1.
AnalyzerMain ==
    /\ runs = 0 /\ exit_code = NotRun
    /\ LET loaded == _load_all_reports(dir, <<>>, EmptyMap)
           printed == print_report(AnalysisOf(loaded.rounds))
       IN /\ rounds' = loaded.rounds
          /\ all_issues' = loaded.all_issues
          /\ result' = AnalysisOf(loaded.rounds)
          /\ out' = printed.out
          /\ exit_code' = IF printed.completed THEN 0 ELSE 1
    /\ runs' = 1
    /\ UNCHANGED <<dir_exists, dir, file_name, file_exists, file_content,
                   self_content, report, errors, warnings, checks, ret>>

Next ==
    \/ \E doc \in DocChoices : WriteReview(doc)
    \/ NewAnalyzer
    \/ Analyze
    \/ AnalyzerMain

Spec == Init /\ [][Next]_vars

(* ------------- trend and termination over snapshot lists --------------- *)

\* Largest blocker and major count of a drawn snapshot.
MaxCount == 2
\* Largest count of the remaining (non-blocking) issues of a drawn snapshot.
MaxOther == 2
\* Number of freely drawn snapshots at the end of a list.
MaxTail == 2
\* Number of identical leading rounds of a long review.
PadRounds == 14

Counts == (0..MaxCount) \X (0..MaxCount) \X (0..MaxOther)
PadCounts == <<1, 1, 0>>

Snapshot(i, t) ==
    [round |-> DecStr(i), blocker |-> t[1], major |-> t[2],
     completeness |-> t[3], risk |-> 0, question |-> 0,
     total |-> t[1] + t[2] + t[3]]

\* The identical leading rounds of a long review.
PadList == [i \in 1..PadRounds |-> Snapshot(i, PadCounts)]

SnapInit ==
    /\ dir_exists = TRUE
    /\ dir = EmptyMap
    /\ rounds \in {<<>>, PadList}
    /\ all_issues = EmptyMap
    /\ runs = 0
    /\ result = NoResult
    /\ CheckerIdle

\* One more snapshot at the end of the list.
AppendRound(t) ==
    /\ \/ Len(rounds) < MaxTail
       \/ Len(rounds) >= PadRounds /\ Len(rounds) < PadRounds + MaxTail
    /\ rounds' = Append(rounds, Snapshot(Len(rounds) + 1, t))
    /\ result' = NoResult
    /\ UNCHANGED <<dir_exists, dir, all_issues, runs, cvars>>

\* _analyze_trend applied to the snapshot list.
AnalyzeTrend ==
    /\ result' = [trend |-> _analyze_trend(rounds)]
    /\ UNCHANGED <<dir_exists, dir, rounds, all_issues, runs, cvars>>

\* _check_termination applied to the snapshot list.
CheckTermination ==
    /\ result' = [termination_check |-> _check_termination(rounds)]
    /\ UNCHANGED <<dir_exists, dir, rounds, all_issues, runs, cvars>>

SnapNext ==
    \/ \E t \in Counts : AppendRound(t)
    \/ AnalyzeTrend
    \/ CheckTermination

SnapSpec == SnapInit /\ [][SnapNext]_vars

(* ------------------------------ properties ----------------------------- *)

HasTrend == "trend" \in DOMAIN result
HasTerm == "termination_check" \in DOMAIN result
Trend == result.trend
Term == result.termination_check

Latest == rounds[Len(rounds)]

\* The condition entries of a termination result with a given text.
EntriesOf(tc, text) ==
    {i \in 1..Len(tc.conditions) : tc.conditions[i].condition = text}
C1Reported(tc) ==
    \E i \in EntriesOf(tc, CondNoIncrease) : tc.conditions[i].met
C3Reported(tc) ==
    \E i \in EntriesOf(tc, CondMaxRounds) : tc.conditions[i].met
C2Entries(tc) ==
    {i \in 1..Len(tc.conditions) :
        \/ tc.conditions[i].condition = CondAllResolved
        \/ \E n \in 0..(2 * (MaxCount + 3)) :
              tc.conditions[i].condition = CondUnresolved(n)}

\* The rounds of the first analyze() of an analyzer, as numbers.
RoundNumbers == [i \in 1..Len(rounds) |-> DecVal(rounds[i].round)]

\* C1: the reports are processed in ascending numeric order of N, so that
\* the snapshot of v10 follows the snapshot of v9 and the latest snapshot
\* is the one of the highest-numbered round.
C1_NumericRoundOrder ==
    (runs = 1 /\ rounds # <<>>) =>
        /\ \A i, j \in 1..Len(rounds) :
              i < j => RoundNumbers[i] < RoundNumbers[j]
        /\ \A i \in 1..Len(rounds) :
              RoundNumbers[i] <= RoundNumbers[Len(rounds)]

ScenarioA ==
    (FileName(1) :> << Row("B", 1, Open), Row("M", 1, Open) >>)
    @@ (FileName(2) :> << Row("B", 1, Resolved), Row("M", 1, Resolved) >>)

\* C2: for v1 = {B-1 Open, M-1 Open} and v2 = {B-1 Resolved, M-1 Resolved}
\* analyze() reports no remaining blocker or major, direction converging
\* and can_terminate.
C2_ScenarioAConverges ==
    (runs = 1 /\ dir = ScenarioA /\ Len(rounds) = 2) =>
        /\ Term.remaining_blocker = 0
        /\ Term.remaining_major = 0
        /\ Trend.direction = "converging"
        /\ Term.can_terminate

\* The change of round i against round i - 1.
DeltaNoIncrease(rs, i) ==
    /\ rs[i].blocker - rs[i - 1].blocker <= 0
    /\ rs[i].major - rs[i - 1].major <= 0

\* C3: condition C1 is reported met exactly when two deltas exist and both
\* the latest and the previous delta have no increase in blocker or major.
C3_NoIncreaseIffTwoDeltas ==
    (runs = 1 /\ rounds # <<>>) =>
        (C1Reported(Term) <=>
            /\ Len(rounds) >= 3
            /\ DeltaNoIncrease(rounds, Len(rounds))
            /\ DeltaNoIncrease(rounds, Len(rounds) - 1))

\* C4: can_terminate holds iff a positive signal holds: C1 reported met, no
\* blocker or major left in the latest round, or the round ceiling reached;
\* the unmet "still N unresolved" entry never permits termination.
C4_TerminateIffPositiveSignal ==
    (HasTerm /\ rounds # <<>>) =>
        /\ Term.can_terminate <=>
              \/ C1Reported(Term)
              \/ Latest.blocker + Latest.major = 0
              \/ Len(rounds) >= 16
        /\ (/\ Latest.blocker + Latest.major > 0
            /\ ~C1Reported(Term)
            /\ ~C3Reported(Term)) => ~Term.can_terminate

\* C4 witness: outstanding issues, no positive signal, evaluated.
C4_Witness ==
    /\ HasTerm /\ Len(rounds) = 2
    /\ Latest.blocker + Latest.major > 0
    /\ ~Term.can_terminate
    /\ Len(Term.conditions) = 1

\* C5: exactly one C2 entry, met iff the latest round has no blocker or
\* major, otherwise unmet and carrying their count; a single clean round
\* terminates on C2 alone; remaining_* are the latest round's counts.
C5_ExactlyOneC2Entry ==
    (HasTerm /\ rounds # <<>>) =>
        /\ Cardinality(C2Entries(Term)) = 1
        /\ \A i \in C2Entries(Term) :
              /\ Term.conditions[i].met <=> (Latest.blocker + Latest.major = 0)
              /\ Term.conditions[i].met =>
                    Term.conditions[i].condition = CondAllResolved
              /\ ~Term.conditions[i].met =>
                    Term.conditions[i].condition =
                        CondUnresolved(Latest.blocker + Latest.major)
        /\ Term.remaining_blocker = Latest.blocker
        /\ Term.remaining_major = Latest.major
        /\ (Len(rounds) = 1 /\ Latest.blocker = 0 /\ Latest.major = 0) =>
              /\ Term.can_terminate
              /\ ~C1Reported(Term)
              /\ ~C3Reported(Term)

\* C5 witness: a single round without blocker or major, terminated on C2.
C5_Witness ==
    /\ HasTerm /\ Len(rounds) = 1
    /\ Latest.blocker = 0 /\ Latest.major = 0
    /\ Term.can_terminate
    /\ Term.conditions = <<[condition |-> CondAllResolved, met |-> TRUE]>>

\* C6: C3 is met iff at least 16 rounds are loaded; then can_terminate
\* holds whatever the counts, and below 16 rounds there is no C3 entry.
C6_MaxRoundsCeiling ==
    (HasTerm /\ rounds # <<>>) =>
        /\ C3Reported(Term) <=> Len(rounds) >= 16
        /\ Len(rounds) >= 16 => Term.can_terminate
        /\ Len(rounds) < 16 => EntriesOf(Term, CondMaxRounds) = {}

\* C6 witness: 16 rounds with blocker and major outstanding terminate.
C6_Witness ==
    /\ HasTerm /\ Len(rounds) = 16
    /\ Latest.blocker > 0 /\ Latest.major > 0
    /\ Term.can_terminate
    /\ ~C1Reported(Term)

\* The changes between the two latest snapshots, taken from the list.
LastDelta ==
    [blocker |-> rounds[Len(rounds)].blocker - rounds[Len(rounds) - 1].blocker,
     major |-> rounds[Len(rounds)].major - rounds[Len(rounds) - 1].major,
     total |-> rounds[Len(rounds)].total - rounds[Len(rounds) - 1].total]

TrendExample == << Snapshot(1, <<2, 1, 2>>), Snapshot(2, <<0, 0, 2>>) >>

\* C7: the direction is unknown (no prediction) below two rounds; otherwise
\* it is converging if both blocker and major fell between the two latest
\* snapshots, else diverging if either rose, else stable, and the reported
\* changes are those deltas; [{2,1,5},{0,0,2}] is converging with -2,-1,-3.
C7_DirectionFromLastTwo ==
    HasTrend =>
        /\ Len(rounds) < 2 =>
              /\ Trend.direction = "unknown"
              /\ Trend.prediction = None
        /\ Len(rounds) >= 2 =>
              /\ Trend.changes = LastDelta
              /\ (LastDelta.blocker < 0 /\ LastDelta.major < 0) =>
                    Trend.direction = "converging"
              /\ (/\ ~(LastDelta.blocker < 0 /\ LastDelta.major < 0)
                  /\ (LastDelta.blocker > 0 \/ LastDelta.major > 0)) =>
                    Trend.direction = "diverging"
              /\ (/\ ~(LastDelta.blocker < 0 /\ LastDelta.major < 0)
                  /\ LastDelta.blocker <= 0 /\ LastDelta.major <= 0) =>
                    Trend.direction = "stable"
        /\ rounds = TrendExample =>
              /\ Trend.direction = "converging"
              /\ Trend.changes = [blocker |-> -2, major |-> -1, total |-> -3]

\* C7 witness: the trend of the example list has been computed, and it is
\* converging.
C7_Witness ==
    /\ HasTrend
    /\ rounds = TrendExample
    /\ Trend.direction = "converging"

\* The number a "expected to converge after <n> rounds" text carries.
PredictedNumber(text) == DecVal(SubSeq(text, 2, Len(text) - 1))

Remaining == Latest.total - Latest.blocker - Latest.major

\* C8: a prediction exists iff the direction is converging; then, with
\* remaining = total - blocker - major of the latest round, it is
\* (remaining div |dtotal|) + 1 rounds when remaining > 0 and dtotal < 0,
\* and the "about to converge" text otherwise.
C8_PredictionOnlyWhenConverging ==
    HasTrend =>
        /\ (Trend.prediction # None) <=> (Trend.direction = "converging")
        /\ Trend.direction = "converging" =>
              IF Remaining > 0 /\ LastDelta.total < 0
              THEN /\ Trend.prediction =
                         PredictionText((Remaining \div (0 - LastDelta.total)) + 1)
                   /\ PredictedNumber(Trend.prediction) =
                         (Remaining \div (0 - LastDelta.total)) + 1
                   /\ PredictedNumber(Trend.prediction) >= 1
              ELSE Trend.prediction = PredictionSoon

\* C8 witness: a converging trend whose estimate is two rounds (remaining
\* is an exact multiple of the fall of the total).
C8_Witness ==
    /\ HasTrend
    /\ Trend.direction = "converging"
    /\ Remaining = 2 /\ LastDelta.total = -2
    /\ PredictedNumber(Trend.prediction) = 2

\* The ids the drawn documents mention.
DocIds ==
    UNION { {doc[i].id : i \in 1..Len(doc)} : doc \in DocChoices }

\* The observations of an id in one document: its rows with a one-word
\* status, in table order.
DocObservations(content, id, round_num) ==
    LET Seen(row) == row.id = id /\ Len(row.status) = 1
        seen == SelectSeq(content, Seen)
    IN [i \in 1..Len(seen) |-> [round |-> round_num, status |-> seen[i].status[1]]]

\* The observations of an id in the first k documents the analyzer folded.
RECURSIVE Observations(_, _)
Observations(id, k) ==
    IF k = 0 THEN <<>>
    ELSE Observations(id, k - 1)
         \o DocObservations(dir[ReviewPrefix \o rounds[k].round \o MdSuffix],
                            id, rounds[k].round)

IsPrefix(s, t) == Len(s) <= Len(t) /\ SubSeq(t, 1, Len(s)) = s

HistoryFaithful ==
    /\ \A id \in DocIds :
          Observations(id, Len(rounds)) # <<>> => id \in DOMAIN all_issues
    /\ \A id \in DOMAIN all_issues :
          LET h == all_issues[id] IN
          /\ h.changes = Observations(id, Len(rounds))
          /\ h.changes # <<>>
          /\ h.first_round = h.changes[1].round
          /\ h.status = h.changes[Len(h.changes)].status
          /\ h.id = id
          /\ h.level = id[1]

HistoryAppendOnly ==
    runs' > runs =>
        \A id \in DOMAIN all_issues :
            /\ id \in DOMAIN all_issues'
            /\ IsPrefix(all_issues[id].changes, all_issues'[id].changes)
            /\ all_issues'[id].first_round = all_issues[id].first_round

\* C9: for every id of the history map the timeline is the in-order list
\* of all its {round, status} observations, only ever appended to;
\* first_round is the round of the first entry and never changes, status
\* is the status of the last entry, and level is the id's prefix letter.
C9_TimelineAppendOnly ==
    []HistoryFaithful /\ [][HistoryAppendOnly]_vars

\* C9 witness: B-1 was observed Open in round 1 and Resolved in round 2.
C9_Witness ==
    /\ runs = 1
    /\ <<"B", 1>> \in DOMAIN all_issues
    /\ all_issues[<<"B", 1>>].changes =
          << [round |-> <<"1">>, status |-> "Open"],
             [round |-> <<"2">>, status |-> "Resolved"] >>
    /\ all_issues[<<"B", 1>>].first_round = <<"1">>
    /\ all_issues[<<"B", 1>>].status = "Resolved"

(* ------------------------- ReviewQualityChecker ------------------------ *)

\* Body lines (issue headings and table rows) of an audited document.
MaxLines == 3
\* check() calls made on one checker object.
MaxChecks == 2

\* A line of a document.  kind is "heading" (hashes, id), "row" (a status
\* table row: id, status), "title" (report title, arg = version), "depth"
\* (review granularity, text = its word), "round" (arg = round) or "text"
\* (any other line, text = what it contains).
Line(kind, hashes, id, status, text, arg) ==
    [kind |-> kind, hashes |-> hashes, id |-> id, status |-> status,
     text |-> text, arg |-> arg]
NoId == <<"", 0>>
Heading(hashes, id) == Line("heading", hashes, id, <<>>, "", <<>>)
TableRow(id, status) == Line("row", 0, id, status, "", <<>>)
TitleLine(version) == Line("title", 1, NoId, <<>>, "", version)
DepthLine(word) == Line("depth", 0, NoId, <<>>, word, <<>>)
RoundLine(round) == Line("round", 0, NoId, <<>>, "", round)
TextLine(text) == Line("text", 0, NoId, <<>>, text, <<>>)

REQUIRED_CHAPTERS ==
    <<"review metadata", "conclusion of this round", "issue overview",
      "issue detail records", "convergence self-check">>

CheckpointMarker == "manual checkpoint triggered"

LEVEL_PATTERN ==
    << [level |-> "Blocker", prefix |-> "B"],
       [level |-> "Major", prefix |-> "M"],
       [level |-> "Completeness", prefix |-> "C"],
       [level |-> "Risk", prefix |-> "R"],
       [level |-> "Question", prefix |-> "Q"] >>

VALID_STATES ==
    {<<"Open">>, <<"Resolved">>, <<"Accepted", "Risk">>,
     <<"Pending", "Confirmation">>}

\* "<Prefix>-<digits>" as text.
IdStr(id) == <<id[1], "-">> \o DecStr(id[2])

\* The messages of the checker.
Msg(rule, args) == [rule |-> rule, args |-> args]
MsgFileMissing(path) == Msg("file does not exist", <<path>>)
MsgFilename(name) == Msg("file name does not follow the convention", <<name>>)
MsgFilenameHint == Msg("expected Review-v1.md, Review-v2.md ...", <<>>)
MsgChapter(chapter) == Msg("missing required chapter", << <<chapter>> >>)
MsgDuplicate(ids) == Msg("duplicate issue id", ids)
MsgStatus(id, status) == Msg("status not in the standard list", <<IdStr(id), status>>)

\* The checker object: its content, report, errors and warnings.
Checker(c, r, e, w) == [content |-> c, report |-> r, errors |-> e, warnings |-> w]

\* str.lower() of the granularity words a document may carry.
Lower(word) ==
    CASE word = "Deep" -> "deep"
      [] word = "QUICK" -> "quick"
      [] word = "Standard" -> "standard"
      [] OTHER -> word

\* The first line of a kind satisfying the pattern's capture, or 0.
FirstLine(c, kind) ==
    LET hits == {i \in 1..Len(c) :
                   /\ c[i].kind = kind
                   /\ kind = "depth" =>
                        Lower(c[i].text) \in {"quick", "standard", "deep"}
                   /\ kind \in {"title", "round"} =>
                        /\ c[i].arg # <<>>
                        /\ \A k \in 1..Len(c[i].arg) : IsDigit(c[i].arg[k])}
    IN IF hits = {} THEN 0 ELSE CHOOSE i \in hits : \A j \in hits : i <= j

_extract_metadata(self) ==
    LET c == self.content
        v == FirstLine(c, "title")
        d == FirstLine(c, "depth")
        r == FirstLine(c, "round")
    IN [self EXCEPT
          !.report.version = IF v # 0 THEN c[v].arg ELSE @,
          !.report.depth = IF d # 0 THEN Lower(c[d].text) ELSE @,
          !.report.round = IF r # 0 THEN c[r].arg ELSE @]

\* re.match(r"^Review-v\d+\.md$", name)
FilenameMatches(name) ==
    /\ Len(name) > Len(ReviewPrefix) + Len(MdSuffix)
    /\ StartsWith(name, ReviewPrefix)
    /\ EndsWith(name, MdSuffix)
    /\ \A i \in (Len(ReviewPrefix) + 1)..(Len(name) - Len(MdSuffix)) :
          IsDigit(name[i])

_check_filename(self, name) ==
    IF ~FilenameMatches(name)
    THEN [self EXCEPT !.errors = @ \o <<MsgFilename(name), MsgFilenameHint>>]
    ELSE self

\* chapter in self.content
Contains(c, text) == \E i \in 1..Len(c) : c[i].kind = "text" /\ c[i].text = text

RECURSIVE MissingChapters(_, _)
MissingChapters_FirstOnly(c, chapters) ==
    IF chapters = <<>> THEN <<>>
    ELSE IF ~Contains(c, Head(chapters))
         THEN <<MsgChapter(Head(chapters))>>
         ELSE MissingChapters(c, Tail(chapters))

MissingChapters(c, chapters) ==
    IF chapters = <<>> THEN <<>>
    ELSE (IF ~Contains(c, Head(chapters))
          THEN <<MsgChapter(Head(chapters))>> ELSE <<>>)
         \o MissingChapters(c, Tail(chapters))

_check_chapters(self) ==
    [self EXCEPT !.errors = @ \o MissingChapters(self.content, REQUIRED_CHAPTERS)]

\* re.search(r"^##{1,3}\s*\[(<prefix>-\d+)\]", line)
HeadingMatches(line, prefix) ==
    /\ line.kind = "heading"
    /\ line.hashes >= 2 /\ line.hashes <= 4
    /\ line.id[1] = prefix

Issue(id, level, round, line_number) ==
    [id |-> id, level |-> level, title |-> "", first_round |-> round,
     current_round |-> round, status |-> <<"Open">>, line_number |-> line_number]

\* The issues line i yields, one per matching level pattern.
LineIssues(c, i, round) ==
    LET Hit(p) == HeadingMatches(c[i], p.prefix)
        hits == SelectSeq(LEVEL_PATTERN, Hit)
    IN [k \in 1..Len(hits) |-> Issue(c[i].id, hits[k].level, round, i)]

RECURSIVE ScanLines(_, _, _)
ScanLines(c, i, round) ==
    IF i > Len(c) THEN <<>>
    ELSE LineIssues(c, i, round) \o ScanLines(c, i + 1, round)

\* r"\| (B-\d+|M-\d+|C-\d+|R-\d+|Q-\d+) \| ([^|]+) \| ([^|]+) \| (\w+) \|"
StatusRowMatches(line) ==
    /\ line.kind = "row"
    /\ line.id[1] \in Levels
    /\ Len(line.status) = 1

\* status_map: for every id of a matched row, the status of its last row.
StatusMap(c) ==
    LET rows == {i \in 1..Len(c) : StatusRowMatches(c[i])}
        ids == {c[i].id : i \in rows}
    IN [id \in ids |->
          c[CHOOSE i \in rows :
              /\ c[i].id = id
              /\ \A j \in rows : c[j].id = id => j <= i].status]

_extract_status_from_table_Synthesise(self) ==
    LET status_map == StatusMap(self.content)
        issues == self.report.issues
        extra == SetToSeq(DOMAIN status_map \ {issues[k].id : k \in 1..Len(issues)})
    IN [self EXCEPT !.report.issues =
          [k \in 1..Len(issues) |->
             IF issues[k].id \in DOMAIN status_map
             THEN [issues[k] EXCEPT !.status = status_map[issues[k].id]]
             ELSE issues[k]]
          \o [k \in 1..Len(extra) |->
                [Issue(extra[k], "", self.report.round, 0)
                    EXCEPT !.status = status_map[extra[k]]]]]

_extract_status_from_table(self) ==
    LET status_map == StatusMap(self.content)
        issues == self.report.issues
    IN [self EXCEPT !.report.issues =
          [k \in 1..Len(issues) |->
             IF issues[k].id \in DOMAIN status_map
             THEN [issues[k] EXCEPT !.status = status_map[issues[k].id]]
             ELSE issues[k]]]

_extract_issues(self) ==
    _extract_status_from_table(
        [self EXCEPT !.report.issues =
            @ \o ScanLines(self.content, 1, self.report.round)])

\* The ids that occur more than once among the issues.
Duplicates(issues) ==
    {issues[i].id : i \in {i \in 1..Len(issues) :
        \E j \in 1..Len(issues) : j # i /\ issues[j].id = issues[i].id}}

_check_issue_uniqueness(self) ==
    LET duplicates == Duplicates(self.report.issues) IN
    IF duplicates # {}
    THEN [self EXCEPT !.errors =
            Append(@, MsgDuplicate(SetToSeq({IdStr(id) : id \in duplicates})))]
    ELSE self

RECURSIVE StatusWarnings(_)
StatusWarnings(issues) ==
    IF issues = <<>> THEN <<>>
    ELSE (IF Head(issues).status \notin VALID_STATES
          THEN <<MsgStatus(Head(issues).id, Head(issues).status)>> ELSE <<>>)
         \o StatusWarnings(Tail(issues))

_check_issue_lifecycle_AsError(self) ==
    [self EXCEPT !.errors = @ \o StatusWarnings(self.report.issues)]

_check_issue_lifecycle(self) ==
    [self EXCEPT !.warnings = @ \o StatusWarnings(self.report.issues)]

_check_checkpoint(self) ==
    IF Contains(self.content, CheckpointMarker)
    THEN [self EXCEPT !.report.has_checkpoint = TRUE]
    ELSE self

RunRules_StopAtFirstError(self, name, text) ==
    LET named == _check_filename(
                     _extract_metadata([self EXCEPT !.content = text]), name)
    IN IF named.errors # <<>> THEN named
       ELSE _check_checkpoint(
            _check_issue_lifecycle(
            _check_issue_uniqueness(
            _extract_issues(
            _check_chapters(named)))))

\* The checker after the rule chain of check() on an existing file.
RunRules(self, name, text) ==
    _check_checkpoint(
    _check_issue_lifecycle(
    _check_issue_uniqueness(
    _extract_issues(
    _check_chapters(
    _check_filename(
    _extract_metadata([self EXCEPT !.content = text]), name))))))

\* The first element of the tuple check() returns for an existing file.
Success(self) == Len(self.errors) = 0

\* What check() returns when the file does not exist.
MissingFileReturn(name) ==
    [success |-> FALSE, messages |-> <<MsgFileMissing(name)>>, errors |-> <<>>]

\* check(): the checker afterwards and the returned tuple.
check(self, name, exists, text) ==
    IF ~exists
    THEN [self |-> self, ret |-> MissingFileReturn(name)]
    ELSE LET done == RunRules(self, name, text) IN
         [self |-> done,
          ret |-> [success |-> Success(done),
                   messages |-> done.errors \o done.warnings,
                   errors |-> done.errors]]

(* what the audit tool prints *)

NoMsg == Msg("", <<>>)

\* A printed line: its kind, the path it names, a number and a message.
OutLine(kind, name, n, msg) ==
    [kind |-> kind, name |-> name, n |-> n, msg |-> msg]

\* len([i for i in self.report.issues if i.level == level]) as text.
LevelCount(issues, level) ==
    DecStr(Cardinality({k \in 1..Len(issues) : issues[k].level = level}))

\* generate_summary: file, version, round, granularity, issue counts per
\* level, checkpoint, number of errors (n) and of warnings.
generate_summary(self, name) ==
    LET issues == self.report.issues IN
    OutLine("summary", name, Len(self.errors),
            Msg("summary",
                << self.report.version, self.report.round,
                   <<IF self.report.depth = "" THEN "unspecified"
                     ELSE self.report.depth>>,
                   DecStr(Len(issues)),
                   LevelCount(issues, "Blocker"), LevelCount(issues, "Major"),
                   LevelCount(issues, "Completeness"),
                   LevelCount(issues, "Risk"), LevelCount(issues, "Question"),
                   <<IF self.report.has_checkpoint THEN "yes" ELSE "no">>,
                   DecStr(Len(self.warnings)) >>))

\* '[ERROR]' if msg in errors else '[WARN]'
Label(msg, errs) ==
    IF \E i \in 1..Len(errs) : errs[i] = msg THEN "error" ELSE "warn"

\* The detail lines: every message with its label.
Details(messages, errs, name) ==
    IF messages = <<>> THEN <<>>
    ELSE <<OutLine("details", name, Len(messages), NoMsg)>> \o
         [i \in 1..Len(messages) |->
            OutLine(Label(messages[i], errs), name, i, messages[i])]

\* What check_review_report prints for the outcome r of check().
Printed(r, name) ==
    [self |-> r.self, ret |-> r.ret,
     out |-> <<generate_summary(r.self, name)>>
             \o Details(r.ret.messages, r.ret.errors, name)]

\* check_review_report on an existing file: a checker of its own, the
\* summary, then every message with its label; returns success.
check_review_report(name, text) ==
    Printed(check(Checker(<<>>, ReviewReport, <<>>, <<>>), name, TRUE, text),
            name)

\* print(f"路径不存在: {target}")
OutPathMissing(path) == OutLine("path does not exist", path, 0, NoMsg)

(* documents of the audit *)

LowerCaseName == <<"r">> \o Tail(FileName(1))
NameChoices == {FileName(1), FileName(10), LowerCaseName}

FullHeader ==
    << TitleLine(<<"1">>), DepthLine("Deep"), RoundLine(<<"1">>),
       TextLine(REQUIRED_CHAPTERS[1]), TextLine(REQUIRED_CHAPTERS[2]),
       TextLine(REQUIRED_CHAPTERS[3]), TextLine(REQUIRED_CHAPTERS[4]),
       TextLine(REQUIRED_CHAPTERS[5]), TextLine(CheckpointMarker) >>
NoOverviewHeader ==
    << TitleLine(<<"1">>), RoundLine(<<"1">>),
       TextLine(REQUIRED_CHAPTERS[1]), TextLine(REQUIRED_CHAPTERS[2]),
       TextLine(REQUIRED_CHAPTERS[4]), TextLine(REQUIRED_CHAPTERS[5]) >>
Headers == {FullHeader, NoOverviewHeader, <<>>}

BodyChoices ==
    { Heading(1, <<"B", 2>>), Heading(2, <<"B", 1>>), Heading(3, <<"B", 1>>),
      Heading(4, <<"M", 1>>),
      TableRow(<<"B", 1>>, Resolved), TableRow(<<"B", 1>>, <<"Weird">>),
      TableRow(<<"B", 1>>, AcceptedRisk), TableRow(<<"Q", 9>>, Open) }

BodyLen(c) == Cardinality({i \in 1..Len(c) : c[i].kind \in {"heading", "row"}})

(* actions of the audit *)

CheckInit ==
    /\ dir_exists = TRUE
    /\ AnalyzerInit
    /\ file_name \in NameChoices
    /\ file_exists = FALSE
    /\ file_content = <<>>
    /\ NewCheckerState
    /\ exit_code = NotRun
    /\ out = <<>>

\* The review document is created with its metadata and chapters.
CreateFile(header) ==
    /\ ~file_exists /\ checks = 0 /\ exit_code = NotRun
    /\ file_exists' = TRUE
    /\ file_content' = header
    /\ UNCHANGED <<avars, file_name, self_content, report, errors, warnings,
                   checks, ret, exit_code, out>>

\* An issue heading or a status row is added to the document.
AppendLine(line) ==
    /\ file_exists /\ checks = 0 /\ exit_code = NotRun
    /\ BodyLen(file_content) < MaxLines
    /\ file_content' = Append(file_content, line)
    /\ UNCHANGED <<avars, file_name, file_exists, self_content, report,
                   errors, warnings, checks, ret, exit_code, out>>

\* ReviewQualityChecker.__init__: a new checker replaces the current one.
NewChecker ==
    /\ checks > 0 /\ exit_code = NotRun
    /\ self_content' = <<>>
    /\ report' = ReviewReport
    /\ errors' = <<>>
    /\ warnings' = <<>>
    /\ checks' = 0
    /\ ret' = NoRet
    /\ UNCHANGED <<avars, file_name, file_exists, file_content, exit_code, out>>

\* ReviewQualityChecker.check on the current checker.
Check ==
    /\ checks < MaxChecks /\ exit_code = NotRun
    /\ LET r == check(Checker(self_content, report, errors, warnings),
                      file_name, file_exists, file_content)
       IN /\ self_content' = r.self.content
          /\ report' = r.self.report
          /\ errors' = r.self.errors
          /\ warnings' = r.self.warnings
          /\ ret' = r.ret
    /\ checks' = checks + 1
    /\ UNCHANGED <<avars, file_name, file_exists, file_content, exit_code, out>>

\* main() of the audit tool on a path that is a file or does not exist:
\* check_review_report builds its own checker; the exit status follows.
AuditMain ==
    /\ exit_code = NotRun /\ checks = 0
    /\ IF file_exists
       THEN LET r == check_review_report(file_name, file_content)
            IN /\ self_content' = r.self.content
               /\ report' = r.self.report
               /\ errors' = r.self.errors
               /\ warnings' = r.self.warnings
               /\ ret' = r.ret
               /\ checks' = 1
               /\ exit_code' = IF r.ret.success THEN 0 ELSE 1
               /\ out' = r.out
       ELSE /\ exit_code' = 1
            /\ out' = <<OutPathMissing(file_name)>>
            /\ UNCHANGED <<self_content, report, errors, warnings, checks, ret>>
    /\ UNCHANGED <<avars, file_name, file_exists, file_content>>

CheckNext ==
    \/ \E header \in Headers : CreateFile(header)
    \/ \E line \in BodyChoices : AppendLine(line)
    \/ NewChecker
    \/ Check
    \/ AuditMain

CheckSpec == CheckInit /\ [][CheckNext]_vars

(* ------------------------- audit of a directory ------------------------ *)

\* Largest number of files in the audited directory.
MaxAudited == 3

\* The path of the audited directory.
ReviewDirName == <<"r", "e", "v", "i", "e", "w", "s">>

\* A name the glob matches although its round is not a number.
BadRoundName == ReviewPrefix \o <<"x">> \o MdSuffix

\* Names and contents of the files of the audited directory.
AuditNames ==
    {FileName(2), FileName(3), FileName(10), BadRoundName, LowerCaseName}
AuditDocs == {FullHeader, NoOverviewHeader}

\* The loop of check_review_directory over the sorted files: a separator
\* and the single-file flow for each, the conjunction of the results.
\* One turn of the loop: the separator and the report r of md_file, then
\* the turns for the remaining files.
AuditTurn(md_file, r, rest) ==
    [success |-> r.ret.success /\ rest.success,
     out |-> <<OutLine("separator", md_file, 0, NoMsg)>> \o r.out \o rest.out]

RECURSIVE AuditFiles(_, _)
AuditFiles_StopAtFailure(md_files, d) ==
    IF md_files = <<>> THEN [success |-> TRUE, out |-> <<>>]
    ELSE AuditTurn(Head(md_files),
                   check_review_report(Head(md_files), d[Head(md_files)]),
                   IF check_review_report(Head(md_files),
                                          d[Head(md_files)]).ret.success
                   THEN AuditFiles(Tail(md_files), d)
                   ELSE [success |-> FALSE, out |-> <<>>])

AuditFiles(md_files, d) ==
    IF md_files = <<>> THEN [success |-> TRUE, out |-> <<>>]
    ELSE AuditTurn(Head(md_files),
                   check_review_report(Head(md_files), d[Head(md_files)]),
                   AuditFiles(Tail(md_files), d))

\* print(f"目录下没有评审报告文件: {dir_path}")
OutNoReports(path) == OutLine("no review report in the directory", path, 0, NoMsg)

\* The count of the files found, then the loop's output and result.
Found(path, md_files, all) ==
    [success |-> all.success,
     out |-> <<OutLine("found", path, Len(md_files), NoMsg)>> \o all.out]

check_review_directory(path, exists, d) ==
    IF ~exists
    THEN [success |-> FALSE,
          out |-> <<OutLine("directory does not exist", path, 0, NoMsg)>>]
    ELSE IF GlobReview(DOMAIN d) = {}
         THEN [success |-> FALSE, out |-> <<OutNoReports(path)>>]
         ELSE Found(path, SortedReports(DOMAIN d),
                    AuditFiles(SortedReports(DOMAIN d), d))

\* The directory, when it exists, is empty at first; in this
\* specification dir maps a file name to the lines of the document.
DirInit ==
    /\ dir_exists \in BOOLEAN
    /\ AnalyzerInit
    /\ CheckerIdle

\* A document is written into the directory.
WriteDoc(name, doc) ==
    /\ dir_exists /\ exit_code = NotRun
    /\ NumFiles < MaxAudited
    /\ name \notin DOMAIN dir
    /\ dir' = dir @@ (name :> doc)
    /\ UNCHANGED <<dir_exists, rounds, all_issues, runs, result, cvars>>

\* sys.exit(0 if success else 1) after the output of r.
Exit(r) ==
    /\ out' = r.out
    /\ exit_code' = IF r.success THEN 0 ELSE 1

\* main() of the audit tool on the path of the directory.
AuditDirMain ==
    /\ exit_code = NotRun
    /\ Exit(IF dir_exists
            THEN check_review_directory(ReviewDirName, TRUE, dir)
            ELSE [success |-> FALSE,
                  out |-> <<OutPathMissing(ReviewDirName)>>])
    /\ UNCHANGED <<avars, file_name, file_exists, file_content, self_content,
                   report, errors, warnings, checks, ret>>

DirNext ==
    \/ \E name \in AuditNames, doc \in AuditDocs : WriteDoc(name, doc)
    \/ AuditDirMain

DirSpec == DirInit /\ [][DirNext]_vars

(* ------------------------ properties of the audit ---------------------- *)

HasRet == "success" \in DOMAIN ret

\* C10: check() returns success = True exactly when the error list it
\* returns is empty, for existing and missing paths alike, and the
\* single-file tool exits 0 exactly in that case and 1 otherwise.
C10_PassIffNoErrors ==
    /\ HasRet => (ret.success <=> ret.errors = <<>>)
    /\ (exit_code # NotRun /\ HasRet) =>
          (exit_code = 0 <=> ret.errors = <<>>)
    /\ exit_code \in {NotRun, 0, 1}

\* The elements of a list, as a set.
Range(s) == {s[i] : i \in 1..Len(s)}

\* The findings of a returned tuple: its errors, and the warnings among
\* its messages.
ErrorSet(r) == Range(r.errors)
WarningSet(r) == Range(r.messages) \ Range(r.errors)

\* C11: a second check() on the same checker, the document unchanged,
\* returns the result of the first: the same pass/fail value, the same
\* set of errors and the same set of warnings.
C11_SecondCheckEqualsFirst ==
    [][(checks >= 1 /\ checks' = checks + 1) =>
          /\ ret'.success = ret.success
          /\ ErrorSet(ret') = ErrorSet(ret)
          /\ WarningSet(ret') = WarningSet(ret)]_vars

\* The first check() of a checker has returned for an existing document
\* (the document is not edited after a check).
FirstCheckDone == checks = 1 /\ file_exists /\ HasRet

\* An issue heading: a heading of level 1, 2 or 3 carrying an issue id.
IssueHeading(line) ==
    /\ line.kind = "heading"
    /\ line.hashes \in 1..3
    /\ line.id[1] \in Levels

\* The ids carried by two or more issue headings of a document.
DuplicatedHeadingIds(c) ==
    {c[i].id : i \in {i \in 1..Len(c) :
        /\ IssueHeading(c[i])
        /\ \E j \in 1..Len(c) :
              j # i /\ IssueHeading(c[j]) /\ c[j].id = c[i].id}}

\* The id-uniqueness errors of a list of errors.
DuplicateErrors(errs) ==
    {i \in 1..Len(errs) : errs[i].rule = MsgDuplicate(<<>>).rule}

\* C12: a document in which two issue headings carry the same id fails
\* with exactly one id-uniqueness error whose list holds every duplicated
\* id once; a document whose extracted ids are pairwise distinct has no
\* id-uniqueness error.
C12_DuplicateHeadingIds ==
    FirstCheckDone =>
        LET dup == DuplicatedHeadingIds(file_content)
            found == DuplicateErrors(ret.errors)
        IN /\ dup # {} =>
                /\ ~ret.success
                /\ Cardinality(found) = 1
                /\ \A i \in found :
                      /\ Range(ret.errors[i].args) = {IdStr(id) : id \in dup}
                      /\ Len(ret.errors[i].args) = Cardinality(dup)
           /\ Duplicates(report.issues) = {} => found = {}

\* The warnings of a returned tuple, in order: its messages after its
\* errors.
ReturnedWarnings(r) == SubSeq(r.messages, Len(r.errors) + 1, Len(r.messages))

\* The document with every illegal status cell replaced by a legal one.
Legalised(c) ==
    [i \in 1..Len(c) |->
        IF c[i].kind = "row" /\ c[i].status \notin VALID_STATES
        THEN [c[i] EXCEPT !.status = Open] ELSE c[i]]

IllegalIssues(issues) ==
    {k \in 1..Len(issues) : issues[k].status \notin VALID_STATES}

\* C13: every issue with a status outside the vocabulary has its own
\* warning naming its id and the value, every warning belongs to such an
\* issue (a legal status produces none), no error is about a status, and
\* the errors and the pass/fail result are those of the same document
\* with every illegal status made legal.
C13_IllegalStatusWarnsOnly ==
    FirstCheckDone =>
        LET issues == report.issues
            w == ReturnedWarnings(ret)
            legal == check(Checker(<<>>, ReviewReport, <<>>, <<>>), file_name,
                           TRUE, Legalised(file_content)).ret
        IN /\ \A k \in IllegalIssues(issues) :
                Cardinality({i \in 1..Len(w) :
                    w[i] = MsgStatus(issues[k].id, issues[k].status)})
                = Cardinality({j \in 1..Len(issues) :
                    /\ issues[j].id = issues[k].id
                    /\ issues[j].status = issues[k].status})
           /\ \A i \in 1..Len(w) : \E k \in IllegalIssues(issues) :
                w[i] = MsgStatus(issues[k].id, issues[k].status)
           /\ \A i \in 1..Len(ret.errors) :
                ret.errors[i].rule # MsgStatus(NoId, <<>>).rule
           /\ legal.errors = ret.errors
           /\ legal.success = ret.success
           /\ ReturnedWarnings(legal) = <<>>

\* A passing document with one issue, whose table status is illegal.
C13_Witness ==
    /\ FirstCheckDone
    /\ ret.success
    /\ Len(report.issues) = 1
    /\ Len(ReturnedWarnings(ret)) = 1
    /\ \E k \in IllegalIssues(report.issues) :
          report.issues[k].status = <<"Weird">>

\* The required titles a document does not contain.
AbsentTitles(c) ==
    {t \in Range(REQUIRED_CHAPTERS) : TextLine(t) \notin Range(c)}

\* The positions of a message in a list of errors.
Positions(errs, msg) == {i \in 1..Len(errs) : errs[i] = msg}

\* C14: a name of the form Review-v<digits>.md yields no file name error
\* and any other name yields the file name error followed by its hint,
\* fails the check and makes the tool exit 1; every required title yields
\* one chapter error when absent and none when present; a document with a
\* matching name that lacks only the issue overview, with distinct ids
\* and legal statuses, has that chapter error as its only finding.
C14_FilenameAndChapterRules ==
    FirstCheckDone =>
        LET e == ret.errors
            named == Positions(e, MsgFilename(file_name))
            hinted == Positions(e, MsgFilenameHint)
        IN /\ file_name \in {FileName(1), FileName(10)} =>
                named = {} /\ hinted = {}
           /\ file_name = LowerCaseName =>
                /\ Cardinality(named) = 1 /\ Cardinality(hinted) = 1
                /\ \A i \in named : i + 1 \in hinted
                /\ ~ret.success
                /\ exit_code \in {NotRun, 1}
           /\ \A t \in Range(REQUIRED_CHAPTERS) :
                Cardinality(Positions(e, MsgChapter(t)))
                = IF t \in AbsentTitles(file_content) THEN 1 ELSE 0
           /\ ( /\ file_name # LowerCaseName
                /\ AbsentTitles(file_content) = {REQUIRED_CHAPTERS[3]}
                /\ Duplicates(report.issues) = {}
                /\ IllegalIssues(report.issues) = {} )
              => /\ e = <<MsgChapter(REQUIRED_CHAPTERS[3])>>
                 /\ ReturnedWarnings(ret) = <<>>
                 /\ ~ret.success

\* The audit tool has run on review-v1.md, a document with every chapter:
\* the file name error and its hint are the only findings, the exit status
\* is 1.
C14_Witness ==
    /\ FirstCheckDone
    /\ exit_code = 1
    /\ file_name = LowerCaseName
    /\ AbsentTitles(file_content) = {}
    /\ ret.errors = <<MsgFilename(LowerCaseName), MsgFilenameHint>>

\* The findings the rules owe for what they find violated.
FilenameFinding == Positions(ret.errors, MsgFilename(file_name)) # {}
ChapterFindings ==
    \A t \in AbsentTitles(file_content) :
        Positions(ret.errors, MsgChapter(t)) # {}
UniquenessFinding == DuplicateErrors(ret.errors) # {}
StatusFindings ==
    \A k \in IllegalIssues(report.issues) :
        Positions(ReturnedWarnings(ret),
                  MsgStatus(report.issues[k].id, report.issues[k].status)) # {}

\* C17: the result of check() on an existing document holds the finding
\* of every violated rule together: the file name error for a
\* non-matching name, a chapter error for every absent title, the
\* id-uniqueness error when an extracted id is duplicated and a warning
\* for every illegal status, whatever the other rules found.
C17_AllRulesEvaluated ==
    FirstCheckDone =>
        /\ file_name = LowerCaseName => FilenameFinding
        /\ ChapterFindings
        /\ Duplicates(report.issues) # {} => UniquenessFinding
        /\ StatusFindings

\* One document violating the four rules at once, with the four findings
\* in the one result.
C17_Witness ==
    /\ FirstCheckDone
    /\ file_name = LowerCaseName /\ FilenameFinding
    /\ AbsentTitles(file_content) # {} /\ ChapterFindings
    /\ Duplicates(report.issues) # {} /\ UniquenessFinding
    /\ IllegalIssues(report.issues) # {} /\ StatusFindings

\* The severity level an id prefix stands for.
LevelOf(prefix) ==
    CASE prefix = "B" -> "Blocker"
      [] prefix = "M" -> "Major"
      [] prefix = "C" -> "Completeness"
      [] prefix = "R" -> "Risk"
      [] prefix = "Q" -> "Question"

\* What identifies a discovered issue: id, level and line of its heading.
Key(id, level, line_number) ==
    [id |-> id, level |-> level, line_number |-> line_number]
Keys(issues) ==
    [k \in 1..Len(issues) |->
        Key(issues[k].id, issues[k].level, issues[k].line_number)]

\* One draft per issue heading (level 1, 2 or 3) of a document, in line
\* order.
RECURSIVE DraftsFrom(_, _)
DraftsFrom(c, i) ==
    IF i > Len(c) THEN <<>>
    ELSE (IF IssueHeading(c[i])
          THEN <<Key(c[i].id, LevelOf(c[i].id[1]), i)>> ELSE <<>>)
         \o DraftsFrom(c, i + 1)

\* C18: the issues discovered in a document are one per heading of level
\* 1, 2 or 3 carrying an issue id, and none for any other line; each has
\* the 1-based line of its heading and the level of its prefix, and is
\* Open before the table pass.
C18_IssueDiscovery ==
    FirstCheckDone =>
        /\ Keys(report.issues) = DraftsFrom(file_content, 1)
        /\ LET drafts == ScanLines(file_content, 1, report.round)
           IN \A k \in 1..Len(drafts) : drafts[k].status = Open

\* The rows of the status-overview table of a document that carry an id:
\* the lines of the row grammar.
TableRowsOf(c, id) == {i \in 1..Len(c) : StatusRowMatches(c[i]) /\ c[i].id = id}

Last(S) == CHOOSE i \in S : \A j \in S : j <= i

\* C19: after the table pass the issues are the drafts of the heading
\* scan, in the same order and equal in everything but status; an id that
\* occurs only in the table has no issue; an issue whose id has a table
\* row carries the status of that row (of the last one when there are
\* several) and an issue without a table row is Open.
C19_TableChangesStatusOnly ==
    FirstCheckDone =>
        LET c == file_content
            issues == report.issues
            drafts == ScanLines(c, 1, report.round)
        IN /\ Len(issues) = Len(drafts)
           /\ \A k \in 1..Len(issues) :
                /\ [issues[k] EXCEPT !.status = Open] = drafts[k]
                /\ issues[k].status =
                      IF TableRowsOf(c, issues[k].id) = {} THEN Open
                      ELSE c[Last(TableRowsOf(c, issues[k].id))].status
           /\ \A i \in 1..Len(c) :
                ( /\ StatusRowMatches(c[i])
                  /\ \A k \in 1..Len(drafts) : drafts[k].id # c[i].id )
                => \A k \in 1..Len(issues) : issues[k].id # c[i].id

\* A document with one issue heading, a table row for its id and a table
\* row for an id without a heading: one issue, with the table's status.
C19_Witness ==
    /\ FirstCheckDone
    /\ Len(report.issues) = 1
    /\ report.issues[1].status = Resolved
    /\ TableRowsOf(file_content, report.issues[1].id) # {}
    /\ TableRowsOf(file_content, <<"Q", 9>>) # {}

\* The observations of an id in the documents of a directory, taken in
\* the order of a list of file names.
RECURSIVE ObservedIn(_, _, _)
ObservedIn(d, md_files, id) ==
    IF md_files = <<>> THEN <<>>
    ELSE DocObservations(d[Head(md_files)], id, RoundNum(Head(md_files)))
         \o ObservedIn(d, Tail(md_files), id)

\* C20: when analyze() returns, the snapshot list holds one snapshot per
\* Review-v*.md document of the directory and every timeline holds the
\* observations of this run only, also for a second analyze() on the same
\* analyzer.
C20_EachRunFromEmptyHistory ==
    [][runs' > runs =>
          /\ Len(rounds') = Cardinality(GlobReview(DOMAIN dir'))
          /\ \A id \in DOMAIN all_issues' :
                all_issues'[id].changes =
                    ObservedIn(dir', SortedReports(DOMAIN dir'), id)]_vars

\* The sections of the convergence report.
ReportSections ==
    {"title", "history", "trend", "termination", "recommendations", "verdict"}

\* C16: a tool run on a target that does not exist ends with a non-zero
\* exit status after a user-facing message, and prints no part of a
\* report; stated here for the convergence tool, whose target is the
\* review directory.
C16_MissingTargetAborts ==
    (exit_code # NotRun /\ ~dir_exists) =>
        /\ exit_code # 0
        /\ \E i \in 1..Len(out) : out[i].section = "message"
        /\ \A i \in 1..Len(out) : out[i].section \notin ReportSections

\* The directory audit has run on an existing directory.
DirAudited == exit_code # NotRun /\ dir_exists

\* The files whose summary was printed, in the order of printing.
Summarised ==
    LET IsSummary(line) == line.kind = "summary"
        lines == SelectSeq(out, IsSummary)
    IN [i \in 1..Len(lines) |-> lines[i].name]

\* A document passes when a check() of its own reports no error.
Passes(name) ==
    check(Checker(<<>>, ReviewReport, <<>>, <<>>), name, TRUE, dir[name]).ret.success

\* The files are checked one by one in the order of their names, all of
\* them, and the exit status is 0 exactly when every one passes.
CheckedInOrder == Summarised = SortedReports(DOMAIN dir)
ExitIsConjunction ==
    exit_code = 0 <=> \A name \in GlobReview(DOMAIN dir) : Passes(name)

\* C15 as stated: in a directory audit every Review-v*.md file is checked
\* in the order of the file names, also after a failure, and the tool
\* exits 0 exactly when every file passed.
C15_DirectoryAuditConjunction ==
    DirAudited => CheckedInOrder /\ ExitIsConjunction

\* C15 amended: the same for a directory holding at least one
\* Review-v*.md file; a directory holding none yields only the notice
\* that there is no review report and the exit status 1.
C15_DirectoryAuditNonEmpty ==
    DirAudited =>
        IF GlobReview(DOMAIN dir) # {}
        THEN CheckedInOrder /\ ExitIsConjunction
        ELSE out = <<OutNoReports(ReviewDirName)>> /\ exit_code = 1

\* A failing Review-v10.md is checked first, the passing Review-v2.md
\* after it; the exit status is 1.
C15_Witness ==
    /\ DirAudited
    /\ Summarised = <<FileName(10), FileName(2)>>
    /\ ~Passes(FileName(10)) /\ Passes(FileName(2))
    /\ exit_code = 1

\* The B- rows of a status table whose status is Open, Resolved or
\* Accepted Risk.
CountedRows(content) ==
    {i \in 1..Len(content) :
        /\ content[i].id[1] = "B"
        /\ content[i].status \in {Open, Resolved, AcceptedRisk}}

\* The document a snapshot was built from.
DocumentOf(stats) == dir[ReviewPrefix \o stats.round \o MdSuffix]

====
